---- MODULE Spec2Model ----
(***************************************************************************)
(* Model of the AI code-review bot (class CodeReviewBot, its utils and the *)
(* action entry point).  The pull-request pipeline is modelled at the      *)
(* granularity of its awaited external calls; the pure algorithms          *)
(* (severityLevel, findPositionInDiff, the summary counters) are           *)
(* operators computed the way the code computes them.                      *)
(*                                                                         *)
(* Severity names are written without the accent (CRITICA for CRÍTICA).    *)
(***************************************************************************)
EXTENDS Integers, Sequences, FiniteSets, TLC

VARIABLES
    slice,            \* which input slice this behaviour explores ("pr", "cr", "diff")
    maxFiles,         \* this.config.maxFiles
    commentThreshold, \* this.config.commentThreshold
    bedrockModelId,   \* this.bedrockModelId (config.bedrockModelId)
    pc,               \* position of the run inside handlePullRequest and its callees
    listed,           \* outcome of getPRFiles: "pending", "ok", "failed"
    files,            \* the list returned by getPRFiles
    idx,              \* position of the for-of loop of handlePullRequest in files
    analyzedFiles,    \* local counter of handlePullRequest
    analysisResults,  \* local list of handlePullRequest, handed to createSummaryComment
    fileState,        \* per listed file: what handlePullRequest did with it
    filteredIssues,   \* local list of createReviewComments
    k,                \* position of the for-of loop of createReviewComments
    commented,        \* issues for which createReviewComments has called createComment
    lookupOk,         \* createComment: pulls.get and pulls.listFiles both answered
    inlineTries,      \* createComment: createReview attempts of the current call
    generalTries,     \* createComment: issues.createComment attempts of the current call
    summaryOk,        \* createSummaryComment: "pending", "ok", "failed"
    blockingOk,       \* createSummaryComment, the REQUEST_CHANGES review: same values
    published,        \* the numbers createSummaryComment put into the summary body
    log,              \* every external call attempted so far, in order
    patch,            \* findPositionInDiff: argument patch
    targetLine,       \* findPositionInDiff: argument targetLine
    position,         \* findPositionInDiff: returned value
    dpc,              \* findPositionInDiff: "call" before, "returned" after
    response,         \* parseAnalysis: argument response
    parser,           \* parseAnalysis: which revision of the method runs
    parsed,           \* parseAnalysis: returned list of issues
    ppc,              \* parseAnalysis: "call" before, "returned" after
    composed,         \* how the text of response was put together
    eventName,        \* this.context.eventName
    payloadPR,        \* this.context.payload.pull_request is present
    comment,          \* this.context.payload.comment
    reviewComments,   \* the review comments of the pull request on the platform
    repoFile,         \* the lines of the commented file on the platform
    fixComment,       \* handleApplyFix: the comment found, or NoComment
    fixCode,          \* handleApplyFix: the text extractFixCode returned
    content,          \* applyChanges: the lines getFileContent returned
    written,          \* the contents handed to createOrUpdateFileContents, in order
    raised,           \* the error that left run(), or "none"
    fpc,              \* position of the run inside handleComment and its callees
    promptFile,       \* invokeBedrock: argument filename
    payload,          \* invokeBedrock: the body handed to InvokeModelCommand
    ipc,              \* invokeBedrock: "call" before, "framed" after
    inputs,           \* the inputs of the action, as core.getInput reads them
    excludePatterns   \* this.config.excludePatterns

vars == <<slice, maxFiles, commentThreshold, bedrockModelId, pc, listed, files, idx,
          analyzedFiles, analysisResults, fileState, filteredIssues, k, commented,
          lookupOk, inlineTries, generalTries, summaryOk, blockingOk, published, log,
          patch, targetLine, position, dpc, response, parser, parsed, ppc, composed,
          eventName, payloadPR, comment, reviewComments, repoFile, fixComment,
          fixCode, content, written, raised, fpc,
          promptFile, payload, ipc, inputs, excludePatterns>>

(***************************************************************************)
(* Bounds of the model.                                                    *)
(***************************************************************************)
MaxListed == 2     \* files in one listing of the pull request
MaxCap == 2        \* config.maxFiles ranges over 1..MaxCap
MaxIssues == 2     \* issues in one parsed analysis (slice "cr")
MaxPatchLen == 4   \* lines of a patch handed to findPositionInDiff (slice "diff")
MaxStart == 2      \* new-file start line of a hunk header (slice "diff")
MaxTarget == 5     \* target line handed to findPositionInDiff (slice "diff")
MaxObjects == 2    \* candidate objects in one response text (slice "parse")
MaxFileLines == 2  \* lines of the file a fix is applied to (slice "fix")
MaxFixLines == 2   \* lines inside the fenced block of a review comment (slice "fix")

(***************************************************************************)
(* Program constants.                                                      *)
(***************************************************************************)
Null == 0                   \* findPositionInDiff's "return null" (positions are >= 1)
DefaultMaxFiles == 10       \* parseInt(core.getInput("max-files")) || 10
Undefined == "undefined"    \* a config field the entry point never sets

Severities == {"CRITICA", "ALTA", "MEDIA", "BAJA"}
Unrecognized == "INFO"      \* a truthy severity that is no key of `levels`

(***************************************************************************)
(* Unified-diff patches: a patch is the sequence of its lines, a line is   *)
(* its first character(s) and, for a hunk header, the number after '+'.    *)
(***************************************************************************)
Hdr(c) == [kind |-> "@@", start |-> c]
Ln(kd) == [kind |-> kd, start |-> 0]
NoPatch == <<>>
\* "@@ -1,3 +1,4 @@\n context\n+added1\n+added2\n context2"
Patch1 == <<Hdr(1), Ln(" "), Ln("+"), Ln("+"), Ln(" ")>>
InLine == 2
OutLine == 9

\* currentLine = parseInt(match[1], 10) - 1
CurrentLineAtHeaderNoDec(line) == line.start
CurrentLineAtHeader(line) == line.start - 1

\* line.startsWith("+") || line.startsWith(" ")
IsAddedOrContextOrMarker(line) == line.kind \in {"+", " ", "\\"}
IsAddedOrContext(line) == line.kind \in {"+", " "}

RECURSIVE ScanDiff(_, _, _, _, _)
ScanDiff(lines, target, i, pos0, currentLine) ==
    IF i > Len(lines) THEN Null
    ELSE LET pos == pos0 + 1
             line == lines[i]
         IN  IF line.kind = "@@"
                THEN ScanDiff(lines, target, i + 1, pos, CurrentLineAtHeader(line))
             ELSE IF line.kind = "-"
                THEN ScanDiff(lines, target, i + 1, pos, currentLine)
             ELSE IF IsAddedOrContext(line)
                THEN IF currentLine + 1 = target
                        THEN pos
                        ELSE ScanDiff(lines, target, i + 1, pos, currentLine + 1)
             ELSE ScanDiff(lines, target, i + 1, pos, currentLine)

FindPositionInDiff(p, target) ==
    IF p = NoPatch THEN Null ELSE ScanDiff(p, target, 1, 0, 0)

(***************************************************************************)
(* utils.js                                                                *)
(***************************************************************************)
\* minimatch(filename, pattern), tabulated for the names and patterns used
Minimatch(filename, pattern) ==
    <<filename, pattern>> \in {<<"dist/c.js", "dist/**">>}

ShouldAnalyzeFile(filename, patterns) ==
    ~ \E j \in DOMAIN patterns : Minimatch(filename, patterns[j])

SeverityLevelDefaultOne(severity) ==
    CASE severity = "CRITICA" -> 4
      [] severity = "ALTA" -> 3
      [] severity = "MEDIA" -> 2
      [] severity = "BAJA" -> 1
      [] OTHER -> 1

SeverityLevelSwapped(severity) ==
    CASE severity = "CRITICA" -> 4
      [] severity = "ALTA" -> 2
      [] severity = "MEDIA" -> 3
      [] severity = "BAJA" -> 1
      [] OTHER -> 0

SeverityLevel(severity) ==
    CASE severity = "CRITICA" -> 4
      [] severity = "ALTA" -> 3
      [] severity = "MEDIA" -> 2
      [] severity = "BAJA" -> 1
      [] OTHER -> 0

(***************************************************************************)
(* Inputs: the platform's listing and the parsed answers of the model.     *)
(***************************************************************************)
ExcludePatterns == <<"dist/**">>

FileBank ==
    { [filename |-> "src/a.js", status |-> "modified", patch |-> Patch1],
      [filename |-> "src/b.js", status |-> "added", patch |-> NoPatch],
      [filename |-> "dist/c.js", status |-> "modified", patch |-> Patch1],
      [filename |-> "old.js", status |-> "removed", patch |-> NoPatch] }

SeqsUpTo(S, n) == UNION { [1..m -> S] : m \in 0..n }

Distinct(s) == \A a, b \in DOMAIN s : a # b => s[a].filename # s[b].filename

Listings(sl) ==
    IF sl = "cr"
        THEN { <<f>> : f \in FileBank }
        ELSE { s \in SeqsUpTo(FileBank, MaxListed) : Distinct(s) }

Issue(sev, line, refs) == [severity |-> sev, line |-> line, refs |-> refs]

IssueDomain ==
    { Issue(s, l, "none") : s \in Severities \cup {Unrecognized}, l \in {InLine, OutLine} }
        \cup { Issue("ALTA", InLine, "text") }

PRAnalyses ==
    { <<>>,
      <<Issue("CRITICA", InLine, "none")>>,
      <<Issue("ALTA", OutLine, "none")>>,
      <<Issue("MEDIA", InLine, "none")>>,
      <<Issue("BAJA", InLine, "none")>>,
      <<Issue(Unrecognized, InLine, "none")>>,
      <<Issue("MEDIA", InLine, "text")>>,
      <<Issue("ALTA", InLine, "none"), Issue("MEDIA", OutLine, "none")>> }

Responses(sl) ==
    IF sl = "cr" THEN SeqsUpTo(IssueDomain, MaxIssues) ELSE PRAnalyses

(***************************************************************************)
(* createReviewComments / formatComment / createComment                    *)
(***************************************************************************)
\* analysis.filter(issue => severityLevel(issue.severity) >= severityLevel(threshold))
Retained(issue, threshold) ==
    SeverityLevel(issue.severity) >= SeverityLevel(threshold)

FilterIssues(analysis, threshold) ==
    SelectSeq(analysis, LAMBDA issue : Retained(issue, threshold))

\* (issue.refs || []).map(...) raises a TypeError when refs is a truthy non-array
FormatCommentThrows(issue) == issue.refs = "text"

FileInfo(fs, path) ==
    { fs[j] : j \in { j \in DOMAIN fs : fs[j].filename = path } }

\* the branch createComment takes once pulls.get and pulls.listFiles answered
\* catch (error) { try { await this.createIssueComment(path, body, line) } ... }
AfterInlineFailureRethrow == "failed"
AfterInlineFailure == "createIssueComment"

CommentRouteAlwaysInline(fs, path, line) == "createReview"
CommentRoute(fs, path, line) ==
    IF FileInfo(fs, path) = {} \/ (\A f \in FileInfo(fs, path) : f.patch = NoPatch)
        THEN "createIssueComment"
    ELSE IF \A f \in FileInfo(fs, path) : FindPositionInDiff(f.patch, line) = Null
        THEN "createIssueComment"
    ELSE "createReview"

(***************************************************************************)
(* createSummaryComment                                                    *)
(***************************************************************************)
RECURSIVE Flatten(_)
Flatten(results) ==
    IF results = <<>> THEN <<>>
    ELSE Head(results).analysis \o Flatten(Tail(results))

\* const severity = issue.severity || "BAJA"
SeverityOrDefault(issue) == IF issue.severity = "" THEN "BAJA" ELSE issue.severity

RECURSIVE CountSeverity(_, _)
CountSeverity(issues, s) ==
    IF issues = <<>> THEN 0
    ELSE (IF SeverityOrDefault(Head(issues)) = s THEN 1 ELSE 0)
            + CountSeverity(Tail(issues), s)

RECURSIVE FilesWithIssues(_)
FilesWithIssues(results) ==
    IF results = <<>> THEN 0
    ELSE (IF Len(Head(results).analysis) > 0 THEN 1 ELSE 0)
            + FilesWithIssues(Tail(results))

SummaryStats(results) ==
    [ totalIssues |-> Len(Flatten(results)),
      filesWithIssues |-> FilesWithIssues(results),
      filesAnalyzed |-> Len(results),
      issueCounts |-> [ s \in Severities \cup {Unrecognized} |->
                          CountSeverity(Flatten(results), s) ] ]

NoStats ==
    [ totalIssues |-> 0, filesWithIssues |-> 0, filesAnalyzed |-> 0,
      issueCounts |-> [ s \in Severities \cup {Unrecognized} |-> 0 ] ]

\* const criticalOrHighIssues = issueCounts.CRÍTICA + issueCounts.ALTA
CriticalOnly(issueCounts) == issueCounts["CRITICA"]
CriticalOrHighIssues(issueCounts) == issueCounts["CRITICA"] + issueCounts["ALTA"]

(***************************************************************************)
(* handlePullRequest: the decisions of its loop                            *)
(***************************************************************************)
\* createSummaryComment: catch (error) { console.error(...) }, handlePullRequest goes on
AfterSummaryFailureRethrow == "failed"
AfterSummaryFailure == "done"

\* getPRFiles is awaited outside any try: its rejection leaves handlePullRequest
AfterListFilesSwallow(ok) == "loop"
AfterListFiles(ok) == IF ok THEN "loop" ELSE "failed"

\* if (analyzedFiles >= this.config.maxFiles) break;
LoopBreak(analyzed, cap) == analyzed >= cap

\* the statement reached when createReviewComments has returned for a file
AfterFileSummaryInLoop == "createSummaryComment"
AfterFile == "loop"

\* catch (error) { analysisResults.push({path, analysis: [], error}) } and on to the
\* next file
FileErrorHandlerPrepend(results, path) ==
    [ next |-> "loop",
      results |-> <<[path |-> path, analysis |-> <<>>, error |-> TRUE]>> \o results ]
FileErrorHandlerRethrow(results, path) ==
    [ next |-> "failed", results |-> results ]
FileErrorHandler(results, path) ==
    [ next |-> "loop",
      results |-> Append(results, [path |-> path, analysis |-> <<>>, error |-> TRUE]) ]

Call(op, path, line) == [op |-> op, path |-> path, line |-> line]

(***************************************************************************)
(* The text of a model response.  A text is a sequence of tokens: prose,   *)
(* the four bracket characters, a "name": value member of an object (with  *)
(* its separator) and text that is not JSON.  A value is a number or the   *)
(* raw characters between the quotes of a string.                          *)
(***************************************************************************)
NoVal == [ty |-> "none", n |-> 0, s |-> ""]
NullVal == [ty |-> "null", n |-> 0, s |-> ""]
EmptyArr == [ty |-> "arr", n |-> 0, s |-> ""]
False == [ty |-> "bool", n |-> 0, s |-> ""]
Num(n) == [ty |-> "num", n |-> n, s |-> ""]
Str(s) == [ty |-> "str", n |-> 0, s |-> s]

Tok(t) == [t |-> t, f |-> "", v |-> NoVal]
Fld(f, v) == [t |-> "field", f |-> f, v |-> v]
Txt == Tok("txt")
Junk == Tok("junk")
LB == Tok("[")
RB == Tok("]")
LC == Tok("{")
RC == Tok("}")

FieldNames == {"line", "severity", "description", "issue", "suggestion", "solution",
               "code", "explanation", "refs", "canAutoFix"}
EmptyObject == [f \in FieldNames |-> NoVal]

\* the truth value JavaScript gives a property value
Truthy(v) ==
    CASE v.ty = "num" -> v.n # 0
      [] v.ty = "str" -> v.s # ""
      [] v.ty \in {"arr"} -> TRUE
      [] OTHER -> FALSE

\* raw strings of the inputs: plain, with an escaped newline, with an escaped
\* quote, and with a literal newline (which JSON does not allow in a string)
EscapedNewline == "a\\nb"
EscapedQuote == "q\\\"r"
LiteralNewline == "x\ny"

JsonStringOk(raw) == raw # LiteralNewline

\* the string JSON.parse decodes from the raw characters
JsonUnescape(raw) ==
    CASE raw = EscapedNewline -> "a\nb"
      [] raw = EscapedQuote -> "q\"r"
      [] raw = "x\\ny" -> LiteralNewline
      [] OTHER -> raw

\* what ([^"]+) or ([^"]*) captures of the raw characters after an opening quote
QuotedCapture(raw) == IF raw = EscapedQuote THEN "q\\" ELSE raw

\* .replace(/\\n/g, "\n").replace(/\\"/g, '"')
ReplaceEscapes(str) == IF str = EscapedNewline THEN "a\nb" ELSE str

\* p2.replace(/\n/g, "\\n")
EscapeNewlines(raw) == IF raw = LiteralNewline THEN "x\\ny" ELSE raw

\* parseInt(str) || null, for the captured strings of the inputs
ParseIntOrNull(str) == IF str = "4" THEN Num(4) ELSE NullVal

FirstIdx(toks, t, from) ==
    LET is == { i \in from..Len(toks) : toks[i].t = t }
    IN  IF is = {} THEN 0 ELSE CHOOSE i \in is : \A j \in is : i <= j

LastIdx(toks, t) ==
    LET is == { i \in 1..Len(toks) : toks[i].t = t }
    IN  IF is = {} THEN 0 ELSE CHOOSE i \in is : \A j \in is : j <= i

\* content.match(/\[[\s\S]*\]/): from the first "[" to the last "]"; <<>> is null
ArraySpan(text) ==
    LET i == FirstIdx(text, "[", 1)
        j == LastIdx(text, "]")
    IN  IF i # 0 /\ j > i THEN SubSeq(text, i, j) ELSE <<>>

\* JSON.parse of a token sequence: ok and the objects that are the elements of
\* the decoded array (or the decoded object itself); elements that are arrays
\* have no properties and are left out
JsonFail == [ok |-> FALSE, elems |-> <<>>]

RECURSIVE JsonScan(_, _, _, _, _, _)
JsonScan(toks, i, depth, inObj, cur, elems) ==
    IF i > Len(toks) THEN [ok |-> depth = -1, elems |-> elems]
    ELSE LET tk == toks[i]
         IN  IF depth = -1 THEN JsonFail
             ELSE IF tk.t = "["
                THEN IF inObj THEN JsonFail
                     ELSE JsonScan(toks, i + 1, depth + 1, FALSE, cur, elems)
             ELSE IF tk.t = "]"
                THEN IF inObj \/ depth < 1 THEN JsonFail
                     ELSE JsonScan(toks, i + 1, IF depth = 1 THEN -1 ELSE depth - 1,
                                   FALSE, cur, elems)
             ELSE IF tk.t = "{"
                THEN IF inObj THEN JsonFail
                     ELSE JsonScan(toks, i + 1, depth, TRUE, EmptyObject, elems)
             ELSE IF tk.t = "}"
                THEN IF ~inObj THEN JsonFail
                     ELSE JsonScan(toks, i + 1, IF depth = 0 THEN -1 ELSE depth, FALSE,
                                   cur, IF depth <= 1 THEN Append(elems, cur) ELSE elems)
             ELSE IF tk.t = "field"
                THEN IF ~inObj \/ (tk.v.ty = "str" /\ ~JsonStringOk(tk.v.s)) THEN JsonFail
                     ELSE JsonScan(toks, i + 1, depth, TRUE,
                                   [cur EXCEPT ![tk.f] =
                                       IF tk.v.ty = "str" THEN Str(JsonUnescape(tk.v.s))
                                       ELSE tk.v],
                                   elems)
             ELSE JsonFail

JsonParse(toks) == JsonScan(toks, 1, 0, FALSE, EmptyObject, <<>>)

(***************************************************************************)
(* parseAnalysis and fallbackParseWithRegex                                *)
(***************************************************************************)
\* the text the first lines of parseAnalysis take from the response, and
\* whether taking it throws
ContentOf(resp) ==
    [threw |-> resp.shape \in {"null", "emptyContent"},
     text |-> IF resp.shape \in {"content", "messages", "string"} THEN resp.text ELSE <<>>]

HasRequiredFields(issue) ==
    /\ Truthy(issue["severity"])
    /\ Truthy(issue["line"])
    /\ (Truthy(issue["description"]) \/ Truthy(issue["issue"]))
    /\ (Truthy(issue["solution"]) \/ Truthy(issue["code"]))

\* content.match(/\{[^}]+\}/g): from a "{" to the next "}", at least one
\* character between them, the search resuming after the "}"
RECURSIVE JsonBlocks(_, _)
JsonBlocks(text, from) ==
    LET i == FirstIdx(text, "{", from)
        j == IF i = 0 THEN 0 ELSE FirstIdx(text, "}", i + 1)
    IN  IF i = 0 \/ j = 0 THEN <<>>
        ELSE IF j = i + 1 THEN JsonBlocks(text, i + 1)
        ELSE <<SubSeq(text, i, j)>> \o JsonBlocks(text, j + 1)

\* pattern.exec(block) for the five patterns: the first member the pattern matches
LineMatches(tk) == tk.t = "field" /\ tk.f = "line" /\ tk.v.ty = "num" /\ tk.v.n >= 0
SeverityMatches(tk) ==
    tk.t = "field" /\ tk.f = "severity" /\ tk.v.ty = "str" /\ tk.v.s \in Severities
TextMatches(tk, field) ==
    tk.t = "field" /\ tk.f = field /\ tk.v.ty = "str" /\ QuotedCapture(tk.v.s) # ""

\* the first of the places is where a pattern matches, 0 when there is none
FirstMatch(is) ==
    IF is = {} THEN 0 ELSE CHOOSE i \in is : \A j \in is : i <= j

ExtractText(block, field, default) ==
    LET m == FirstMatch({ i \in DOMAIN block : TextMatches(block[i], field) })
    IN  IF m = 0 THEN Str(default)
        ELSE Str(ReplaceEscapes(QuotedCapture(block[m].v.s)))

BlockIssue(block) ==
    LET l == FirstMatch({ i \in DOMAIN block : LineMatches(block[i]) })
        sv == FirstMatch({ i \in DOMAIN block : SeverityMatches(block[i]) })
    IN  [EmptyObject EXCEPT
            !["line"] = IF l = 0 THEN NullVal ELSE Num(block[l].v.n),
            !["severity"] = IF sv = 0 THEN Str("BAJA") ELSE Str(block[sv].v.s),
            !["description"] = ExtractText(block, "description", ""),
            !["solution"] = ExtractText(block, "solution", ""),
            !["explanation"] = ExtractText(block, "explanation", "")]

HasMinimumFields(issue) ==
    Truthy(issue["line"]) /\ (Truthy(issue["description"]) \/ Truthy(issue["solution"]))

FallbackParseWithRegex(text) ==
    LET blocks == JsonBlocks(text, 1)
        issues == [b \in DOMAIN blocks |-> BlockIssue(blocks[b])]
    IN  SelectSeq(issues, HasMinimumFields)

ParseAnalysis(resp) ==
    LET c == ContentOf(resp)
        span == ArraySpan(c.text)
        decoded == JsonParse(span)
    IN  IF c.threw THEN <<>>
        ELSE IF c.text = <<>> THEN <<>>
        ELSE IF span # <<>> /\ decoded.ok
            THEN SelectSeq(decoded.elems, HasRequiredFields)
        ELSE FallbackParseWithRegex(c.text)

(***************************************************************************)
(* parseAnalysis of the revision that repairs each object before decoding  *)
(***************************************************************************)
\* content.match(/\{[\s\S]*?\}/g): from a "{" to the next "}"
RECURSIVE JsonObjects(_, _)
JsonObjects(text, from) ==
    LET i == FirstIdx(text, "{", from)
        j == IF i = 0 THEN 0 ELSE FirstIdx(text, "}", i + 1)
    IN  IF i = 0 \/ j = 0 THEN <<>>
        ELSE <<SubSeq(text, i, j)>> \o JsonObjects(text, j + 1)

\* the replace of the first "code" member: its literal newlines are escaped
RepairCode(block) ==
    LET m == FirstMatch({ i \in DOMAIN block :
                            block[i].t = "field" /\ block[i].f = "code"
                               /\ block[i].v.ty = "str" })
    IN  IF m = 0 THEN block
        ELSE [block EXCEPT ![m] = Fld("code", Str(EscapeNewlines(block[m].v.s)))]

\* if (!jsonString.endsWith("}")) jsonString += "}"
CloseObject(block) ==
    IF block[Len(block)].t # "}" THEN Append(block, RC) ELSE block

\* extractField(field): the value of the first "field": "..." member, or null
ExtractField(block, field) ==
    LET m == FirstMatch({ i \in DOMAIN block :
                            block[i].t = "field" /\ block[i].f = field
                               /\ block[i].v.ty = "str" })
    IN  IF m = 0 THEN NullVal ELSE Str(QuotedCapture(block[m].v.s))

ExtractedItem(block) ==
    LET l == ExtractField(block, "line")
    IN  [EmptyObject EXCEPT
            !["line"] = IF l = NullVal THEN NullVal ELSE ParseIntOrNull(l.s),
            !["severity"] = ExtractField(block, "severity"),
            !["issue"] = ExtractField(block, "issue"),
            !["suggestion"] = ExtractField(block, "suggestion"),
            !["code"] = ExtractField(block, "code"),
            !["refs"] = EmptyArr,
            !["canAutoFix"] = False]

RepairedItem(block) ==
    LET jsonString == CloseObject(RepairCode(block))
        decoded == JsonParse(jsonString)
    IN  IF decoded.ok THEN decoded.elems[1] ELSE ExtractedItem(jsonString)

ParseAnalysisRepair(resp) ==
    LET c == ContentOf(resp)
        jsonObjects == JsonObjects(c.text, 1)
    IN  IF c.threw THEN <<>>
        ELSE IF c.text = <<>> THEN <<>>
        ELSE [b \in DOMAIN jsonObjects |-> RepairedItem(jsonObjects[b])]

(***************************************************************************)
(* Initial states                                                          *)
(***************************************************************************)
DiffVarsIdle ==
    /\ patch = NoPatch
    /\ targetLine = 0
    /\ position = Null
    /\ dpc = "idle"

NoResponse == [shape |-> "none", text |-> <<>>]
NoComposition == [pre |-> <<>>, objs |-> <<>>, wrap |-> FALSE, post |-> <<>>]

NoComment == [id |-> 0, path |-> "", line |-> 0, body |-> [fence |-> "none", code |-> <<>>]]
NoFix == <<>>

\* no comment event is being handled
FixVarsIdle ==
    /\ comment = [body |-> "", in_reply_to_id |-> 0]
    /\ reviewComments = <<>>
    /\ repoFile = <<>>
    /\ fixComment = NoComment
    /\ fixCode = NoFix
    /\ content = <<>>
    /\ written = <<>>
    /\ raised = "none"
    /\ fpc = "idle"

NoPayload == [framing |-> "none"]
NoInputs == [given |-> FALSE]

InvokeVarsIdle ==
    /\ promptFile = ""
    /\ payload = NoPayload
    /\ ipc = "idle"

\* no run of the entry point: the configuration is the one the slice fixes
ConfigFixed(patterns) ==
    /\ inputs = NoInputs
    /\ excludePatterns = patterns

ParseVarsIdle ==
    /\ response = NoResponse
    /\ parser = "none"
    /\ parsed = <<>>
    /\ ppc = "idle"
    /\ composed = NoComposition

BotConstructed ==
    /\ pc = "start"
    /\ listed = "pending"
    /\ files = <<>>
    /\ idx = 1
    /\ analyzedFiles = 0
    /\ analysisResults = <<>>
    /\ fileState = <<>>
    /\ filteredIssues = <<>>
    /\ k = 1
    /\ commented = <<>>
    /\ lookupOk = FALSE
    /\ inlineTries = 0
    /\ generalTries = 0
    /\ summaryOk = "pending"
    /\ blockingOk = "pending"
    /\ published = NoStats
    /\ log = <<>>

\* a pull_request run: any cap, any threshold
Init ==
    /\ slice = "pr"
    /\ maxFiles \in 1..MaxCap
    /\ commentThreshold \in Severities
    /\ bedrockModelId \in {"anthropic.claude", Undefined}
    /\ BotConstructed
    /\ DiffVarsIdle
    /\ ParseVarsIdle
    /\ eventName = "pull_request"
    /\ payloadPR = TRUE
    /\ FixVarsIdle
    /\ InvokeVarsIdle
    /\ ConfigFixed(ExcludePatterns)

\* a pull_request run over one changed file: the default cap, any threshold
InitCR ==
    /\ slice = "cr"
    /\ maxFiles = DefaultMaxFiles
    /\ commentThreshold \in Severities
    /\ bedrockModelId \in {"anthropic.claude", Undefined}
    /\ BotConstructed
    /\ DiffVarsIdle
    /\ ParseVarsIdle
    /\ eventName = "pull_request"
    /\ payloadPR = TRUE
    /\ FixVarsIdle
    /\ InvokeVarsIdle
    /\ ConfigFixed(ExcludePatterns)

(***************************************************************************)
(* handlePullRequest                                                       *)
(***************************************************************************)
configVars == <<slice, maxFiles, commentThreshold, bedrockModelId>>
diffVars == <<patch, targetLine, position, dpc>>
parseVars == <<response, parser, parsed, ppc, composed>>
fixVars == <<eventName, payloadPR, comment, reviewComments, repoFile, fixComment,
             fixCode, content, written, raised, fpc>>
invokeVars == <<promptFile, payload, ipc>>
entryVars == <<inputs, excludePatterns>>
commentVars == <<filteredIssues, k, commented, lookupOk, inlineTries, generalTries>>
summaryVars == <<summaryOk, blockingOk, published>>

Path == files[idx].filename

\* the catch block of the loop body, entered from a step of file idx
CatchFileError(how) ==
    LET h == FileErrorHandler(analysisResults, Path)
    IN  /\ analysisResults' = h.results
        /\ pc' = h.next
        /\ idx' = idx + 1
        /\ fileState' = [fileState EXCEPT ![idx] = how]

\* const files = await this.getPRFiles();
GetPRFiles ==
    /\ pc = "start"
    /\ \E ok \in BOOLEAN, listing \in Listings(slice) :
        /\ log' = Append(log, Call("listFiles", "", 0))
        /\ listed' = IF ok THEN "ok" ELSE "failed"
        /\ files' = IF ok THEN listing ELSE <<>>
        /\ fileState' = IF ok THEN [j \in DOMAIN listing |-> "untouched"] ELSE <<>>
        /\ pc' = AfterListFiles(ok)
    /\ UNCHANGED <<configVars, idx, analyzedFiles, analysisResults, commentVars,
                   summaryVars, diffVars, parseVars, fixVars, invokeVars,
                   entryVars>>

\* for (const file of files) { if (analyzedFiles >= maxFiles) break;
\*                             if (!shouldAnalyzeFile(...)) continue; ...
LoopHead ==
    /\ pc = "loop"
    /\ IF idx > Len(files) \/ LoopBreak(analyzedFiles, maxFiles)
          THEN /\ pc' = "createSummaryComment"
               /\ UNCHANGED <<idx, fileState>>
       ELSE IF ~ShouldAnalyzeFile(Path, excludePatterns)
          THEN /\ idx' = idx + 1
               /\ fileState' = [fileState EXCEPT ![idx] = "skipped"]
               /\ pc' = "loop"
       ELSE /\ pc' = "getFileContent"
            /\ UNCHANGED <<idx, fileState>>
    /\ UNCHANGED <<configVars, listed, files, analyzedFiles, analysisResults,
                   commentVars, summaryVars, log, diffVars, parseVars, fixVars, invokeVars,
                   entryVars>>

\* const content = await this.getFileContent(file.filename);
GetFileContent ==
    /\ pc = "getFileContent"
    /\ log' = Append(log, Call("getContent", Path, 0))
    /\ \E ok \in BOOLEAN :
        IF ok
           THEN /\ pc' = "analyzeCode"
                /\ UNCHANGED <<idx, analysisResults, fileState>>
           ELSE CatchFileError("fetchFailed")
    /\ UNCHANGED <<configVars, listed, files, analyzedFiles, commentVars,
                   summaryVars, diffVars, parseVars, fixVars, invokeVars,
                   entryVars>>

\* const analysis = await this.analyzeCode(content, file.filename);
\* analysisResults.push({path, analysis});
\* createReviewComments is entered: filteredIssues = analysis.filter(...)
AnalyzeCode ==
    /\ pc = "analyzeCode"
    /\ IF bedrockModelId = Undefined
          \* this.bedrockModelId.includes(...) raises before anything is sent
          THEN /\ CatchFileError("inferFailed")
               /\ UNCHANGED <<log, filteredIssues, k, commented>>
          ELSE /\ log' = Append(log, Call("invokeModel", Path, 0))
               /\ \E ok \in BOOLEAN, analysis \in Responses(slice) :
                    IF ok
                       THEN /\ analysisResults' =
                                Append(analysisResults,
                                       [path |-> Path, analysis |-> analysis,
                                        error |-> FALSE])
                            /\ filteredIssues' = FilterIssues(analysis, commentThreshold)
                            /\ k' = 1
                            /\ commented' = <<>>
                            /\ pc' = "createReviewComments"
                            /\ UNCHANGED <<idx, fileState>>
                       ELSE /\ CatchFileError("inferFailed")
                            /\ UNCHANGED <<filteredIssues, k, commented>>
    /\ UNCHANGED <<configVars, listed, files, analyzedFiles, lookupOk, inlineTries,
                   generalTries, summaryVars, diffVars, parseVars, fixVars, invokeVars,
                   entryVars>>

\* for (const issue of filteredIssues) { formatComment(issue); await createComment(...) }
\* and, the loop over, back in handlePullRequest: analyzedFiles++
CreateReviewComments ==
    /\ pc = "createReviewComments"
    /\ IF k > Len(filteredIssues)
          THEN /\ analyzedFiles' = analyzedFiles + 1
               /\ idx' = idx + 1
               /\ fileState' = [fileState EXCEPT ![idx] = "analyzed"]
               /\ pc' = AfterFile
               /\ UNCHANGED <<analysisResults, commented, lookupOk, inlineTries,
                              generalTries>>
       ELSE IF FormatCommentThrows(filteredIssues[k])
          THEN /\ CatchFileError("commentsFailed")
               /\ UNCHANGED <<analyzedFiles, commented, lookupOk, inlineTries,
                              generalTries>>
       ELSE /\ commented' = Append(commented, filteredIssues[k])
            /\ lookupOk' = FALSE
            /\ inlineTries' = 0
            /\ generalTries' = 0
            /\ pc' = "createComment"
            /\ UNCHANGED <<analyzedFiles, idx, fileState, analysisResults>>
    /\ UNCHANGED <<configVars, listed, files, filteredIssues, k, summaryVars, log,
                   diffVars, parseVars, fixVars, invokeVars,
                   entryVars>>

\* createComment: pulls.get, pulls.listFiles, then the branch on fileInfo and position;
\* a rejected lookup lands in the catch, which calls createIssueComment
CreateComment ==
    /\ pc = "createComment"
    /\ \E ok \in BOOLEAN :
        /\ lookupOk' = ok
        /\ pc' = IF ok THEN CommentRoute(files, Path, filteredIssues[k].line)
                       ELSE "createIssueComment"
    /\ UNCHANGED <<configVars, listed, files, idx, analyzedFiles, analysisResults,
                   fileState, filteredIssues, k, commented, inlineTries, generalTries,
                   summaryVars, log, diffVars, parseVars, fixVars, invokeVars,
                   entryVars>>

\* await this.octokit.rest.pulls.createReview({event: "COMMENT", comments: [...]})
CreateReview ==
    /\ pc = "createReview"
    /\ log' = Append(log, Call("inlineComment", Path, filteredIssues[k].line))
    /\ inlineTries' = inlineTries + 1
    /\ \E ok \in BOOLEAN :
        IF ok THEN /\ pc' = "createReviewComments"
                   /\ k' = k + 1
              ELSE /\ pc' = AfterInlineFailure
                   /\ k' = k
    /\ UNCHANGED <<configVars, listed, files, idx, analyzedFiles, analysisResults,
                   fileState, filteredIssues, commented, lookupOk, generalTries,
                   summaryVars, diffVars, parseVars, fixVars, invokeVars,
                   entryVars>>

\* createIssueComment: issues.createComment inside its own try/catch
CreateIssueComment ==
    /\ pc = "createIssueComment"
    /\ log' = Append(log, Call("generalComment", Path, filteredIssues[k].line))
    /\ generalTries' = generalTries + 1
    /\ \E ok \in BOOLEAN :
        /\ pc' = "createReviewComments"
        /\ k' = k + 1
    /\ UNCHANGED <<configVars, listed, files, idx, analyzedFiles, analysisResults,
                   fileState, filteredIssues, commented, lookupOk, inlineTries,
                   summaryVars, diffVars, parseVars, fixVars, invokeVars,
                   entryVars>>

\* createSummaryComment: the counters, then issues.createComment with the summary
CreateSummaryComment ==
    /\ pc = "createSummaryComment"
    /\ log' = Append(log, Call("summaryComment", "", 0))
    /\ published' = SummaryStats(analysisResults)
    /\ \E ok \in BOOLEAN :
        IF ok
           THEN /\ summaryOk' = "ok"
                /\ pc' = IF CriticalOrHighIssues(SummaryStats(analysisResults).issueCounts) > 0
                            THEN "createBlockingReview"
                            ELSE "done"
           ELSE /\ summaryOk' = "failed"
                /\ pc' = AfterSummaryFailure
    /\ UNCHANGED <<configVars, listed, files, idx, analyzedFiles, analysisResults,
                   fileState, commentVars, blockingOk, diffVars, parseVars, fixVars, invokeVars,
                   entryVars>>

\* pulls.createReview({event: "REQUEST_CHANGES", body: priorityMessage})
CreateBlockingReview ==
    /\ pc = "createBlockingReview"
    /\ log' = Append(log, Call("requestChanges", "", 0))
    /\ \E ok \in BOOLEAN :
        /\ blockingOk' = IF ok THEN "ok" ELSE "failed"
        /\ pc' = IF ok THEN "done" ELSE AfterSummaryFailure
    /\ UNCHANGED <<configVars, listed, files, idx, analyzedFiles, analysisResults,
                   fileState, commentVars, summaryOk, published, diffVars, parseVars,
                   fixVars, invokeVars, entryVars>>

Next ==
    \/ GetPRFiles
    \/ LoopHead
    \/ GetFileContent
    \/ AnalyzeCode
    \/ CreateReviewComments
    \/ CreateComment
    \/ CreateReview
    \/ CreateIssueComment
    \/ CreateSummaryComment
    \/ CreateBlockingReview

Spec == Init /\ [][Next]_vars
SpecCR == InitCR /\ [][Next]_vars

(***************************************************************************)
(* findPositionInDiff as a function of its arguments                       *)
(***************************************************************************)
PatchLines ==
    { Hdr(c) : c \in 1..MaxStart } \cup { Ln(kd) : kd \in {"+", " ", "-", "\\"} }

\* the patches of the platform start with a hunk header; an absent patch is NoPatch
DiffPatches ==
    { p \in SeqsUpTo(PatchLines, MaxPatchLen) : p # <<>> => p[1].kind = "@@" }

\* the pull-request pipeline is not running
BotIdle ==
    /\ pc = "idle"
    /\ listed = "pending"
    /\ files = <<>>
    /\ idx = 1
    /\ analyzedFiles = 0
    /\ analysisResults = <<>>
    /\ fileState = <<>>
    /\ filteredIssues = <<>>
    /\ k = 1
    /\ commented = <<>>
    /\ lookupOk = FALSE
    /\ inlineTries = 0
    /\ generalTries = 0
    /\ summaryOk = "pending"
    /\ blockingOk = "pending"
    /\ published = NoStats
    /\ log = <<>>

InitDiff ==
    /\ slice = "diff"
    /\ maxFiles = DefaultMaxFiles
    /\ commentThreshold = "MEDIA"
    /\ bedrockModelId = Undefined
    /\ BotIdle
    /\ patch \in DiffPatches
    /\ targetLine \in 1..MaxTarget
    /\ position = Null
    /\ dpc = "call"
    /\ ParseVarsIdle
    /\ eventName = "none"
    /\ payloadPR = FALSE
    /\ FixVarsIdle
    /\ InvokeVarsIdle
    /\ ConfigFixed(<<>>)

FindPosition ==
    /\ dpc = "call"
    /\ position' = FindPositionInDiff(patch, targetLine)
    /\ dpc' = "returned"
    /\ UNCHANGED <<configVars, pc, listed, files, idx, analyzedFiles, analysisResults,
                   fileState, commentVars, summaryVars, log, patch, targetLine,
                   parseVars, fixVars, invokeVars,
                   entryVars>>

NextDiff == FindPosition

SpecDiff == InitDiff /\ [][NextDiff]_vars

(***************************************************************************)
(* parseAnalysis on its own: every response of the inputs, either revision *)
(***************************************************************************)
\* the members of an object of the shape the data model gives an issue, and
\* of one that also carries the corrected code
Shaped(n) ==
    <<Fld("line", Num(n)), Fld("severity", Str("ALTA")), Fld("description", Str("d")),
      Fld("suggestion", Str("g"))>>
Full(n) == Shaped(n) \o <<Fld("solution", Str("s"))>>

Obj(members) == <<LC>> \o members \o <<RC>>
Truncated(members) == <<LC>> \o members

ObjectBank ==
    { Obj(Shaped(3)),
      Obj(Full(5)),
      Obj(Full(7)),
      Truncated(Full(7)),
      Obj(<<Fld("line", Num(9)), Junk, Fld("description", Str("d")),
            Fld("solution", Str("s"))>>),
      Obj(<<Fld("line", Str("4")), Fld("severity", Str("ALTA")), Fld("issue", Str("i")),
            Fld("suggestion", Str("g")), Fld("code", Str(LiteralNewline))>>),
      Obj(<<Fld("line", Num(0)), Fld("severity", Str("MEDIA")),
            Fld("description", Str("d")), Fld("solution", Str("s"))>>),
      Obj(<<Fld("line", Num(-1)), Fld("severity", Str("MEDIA")),
            Fld("description", Str("d")), Fld("solution", Str("s"))>>),
      Obj(<<Fld("line", Num(2)), Fld("severity", Str(Unrecognized)),
            Fld("description", Str(EscapedQuote)), Fld("solution", Str(EscapedNewline))>>),
      Obj(<<Fld("line", Num(6)), Fld("severity", Str("BAJA")),
            Fld("description", Str("")), Fld("solution", Str("s"))>>) }

\* prose before and after the objects: none, plain, and with a bracketed remark
ProseBank == { <<>>, <<Txt>>, <<Txt, LB, Txt, RB, Txt>> }

RECURSIVE Concat(_)
Concat(seqs) == IF seqs = <<>> THEN <<>> ELSE Head(seqs) \o Concat(Tail(seqs))

Compositions ==
    [pre : ProseBank, objs : SeqsUpTo(ObjectBank, MaxObjects), wrap : BOOLEAN,
     post : ProseBank]

TextOf(c) ==
    c.pre \o (IF c.wrap THEN <<LB>> ELSE <<>>) \o Concat(c.objs)
          \o (IF c.wrap THEN <<RB>> ELSE <<>>) \o c.post

\* the shapes of a response: text under content[0].text, under
\* messages[0].content[0].text, a bare string, an object without either, an
\* object whose content is an empty array, and null
TextShapes == {"content", "messages", "string"}
ShapeOf(c) ==
    IF c.pre # <<>> \/ c.post # <<>> \/ ~c.wrap THEN {"content"}
    ELSE IF c.objs = <<>> THEN TextShapes \cup {"object", "emptyContent", "null"}
    ELSE TextShapes

InitParse ==
    /\ slice = "parse"
    /\ maxFiles = DefaultMaxFiles
    /\ commentThreshold = "MEDIA"
    /\ bedrockModelId = Undefined
    /\ BotIdle
    /\ DiffVarsIdle
    /\ eventName = "none"
    /\ payloadPR = FALSE
    /\ FixVarsIdle
    /\ InvokeVarsIdle
    /\ ConfigFixed(<<>>)
    /\ composed \in Compositions
    /\ \E shape \in ShapeOf(composed) :
          response = [shape |-> shape,
                      text |-> IF shape \in TextShapes THEN TextOf(composed) ELSE <<>>]
    /\ parser \in {"arrayThenRegex", "repair"}
    /\ parsed = <<>>
    /\ ppc = "call"

ParseResponse ==
    /\ ppc = "call"
    /\ parser = "arrayThenRegex"
    /\ parsed' = ParseAnalysis(response)
    /\ ppc' = "returned"
    /\ UNCHANGED <<configVars, pc, listed, files, idx, analyzedFiles, analysisResults,
                   fileState, commentVars, summaryVars, log, diffVars, fixVars,
                   invokeVars, entryVars, response, parser, composed>>

ParseResponseRepair ==
    /\ ppc = "call"
    /\ parser = "repair"
    /\ parsed' = ParseAnalysisRepair(response)
    /\ ppc' = "returned"
    /\ UNCHANGED <<configVars, pc, listed, files, idx, analyzedFiles, analysisResults,
                   fileState, commentVars, summaryVars, log, diffVars, fixVars,
                   invokeVars, entryVars, response, parser, composed>>

NextParse == ParseResponse \/ ParseResponseRepair

SpecParse == InitParse /\ [][NextParse]_vars

(***************************************************************************)
(* run on a comment event: handleComment, handleApplyFix, applyChanges     *)
(***************************************************************************)
\* comment.body.trim(), for the bodies of the inputs
Trim(body) == IF body = " /apply-fix\n" THEN "/apply-fix" ELSE body

ReplyBodies == {"/apply-fix", " /apply-fix\n", "/apply-fix now"}

\* reviewComments.find((rc) => rc.id === comment.in_reply_to_id)
FindLast(comments, id) ==
    IF comments = <<>> THEN NoComment ELSE comments[Len(comments)]
Find(comments, id) ==
    LET is == { i \in DOMAIN comments : comments[i].id = id }
    IN  IF is = {} THEN NoComment
        ELSE comments[CHOOSE i \in is : \A j \in is : i <= j]

\* commentBody.match(/```diff\n([\s\S]*?)\n```/): the lines between the fence
\* lines of a block tagged diff; a block without a line has no match
ExtractFixCode(body) ==
    IF body.fence = "diff" /\ body.code # <<>> THEN body.code ELSE NoFix

\* if (fixCode): null and the empty string are falsy
FixCodeTruthy(code) == code # NoFix /\ code # <<"">>

\* fixCode.replace(/^[+-]\s/, ""): a leading + or - and the whitespace character
\* after it, which is the newline when the first line is the sign alone
StripLeading(code) ==
    IF code[1] = "+ n" THEN <<"n">> \o Tail(code)
    ELSE IF code[1] = "- o" THEN <<"o">> \o Tail(code)
    ELSE IF code[1] \in {"+", "-"} /\ Len(code) > 1 THEN Tail(code)
    ELSE code

\* lines[line - 1] = ...; lines.join("\n"), as the lines of the joined text
UpdatedContent(lines, line, code) ==
    IF line < 1 THEN lines
    ELSE IF line <= Len(lines)
        THEN SubSeq(lines, 1, line - 1) \o StripLeading(code)
                 \o SubSeq(lines, line + 1, Len(lines))
    ELSE lines \o [i \in 1..(line - 1 - Len(lines)) |-> ""] \o StripLeading(code)

FileLines == {"a", "b"}
DiffLines == {"+ n", "- o", "+n", "+", ""}

CommentBodies ==
    { [fence |-> "none", code |-> <<>>], [fence |-> "js", code |-> <<"n">>] }
        \cup { [fence |-> "diff", code |-> c] : c \in SeqsUpTo(DiffLines, MaxFixLines) }

\* another review comment of the same pull request
OtherComment ==
    [id |-> 2, path |-> "src/b.js", line |-> 1, body |-> [fence |-> "js", code |-> <<"n">>]]

ReviewCommentLists ==
    { <<>> } \cup
    { <<OtherComment, [id |-> 1, path |-> "src/a.js", line |-> l, body |-> b]>> :
        l \in 0..(MaxFileLines + 1), b \in CommentBodies }

InitFix ==
    /\ slice = "fix"
    /\ maxFiles = DefaultMaxFiles
    /\ commentThreshold = "MEDIA"
    /\ bedrockModelId = Undefined
    /\ BotIdle
    /\ DiffVarsIdle
    /\ ParseVarsIdle
    /\ eventName \in {"issue_comment", "pull_request_review_comment"}
    /\ payloadPR \in BOOLEAN
    /\ comment \in [body : ReplyBodies, in_reply_to_id : 0..2]
    /\ reviewComments \in ReviewCommentLists
    /\ repoFile \in SeqsUpTo(FileLines, MaxFileLines) \ {<<>>}
    /\ fixComment = NoComment
    /\ fixCode = NoFix
    /\ content = <<>>
    /\ written = <<>>
    /\ raised = "none"
    /\ fpc = "run"
    /\ InvokeVarsIdle
    /\ ConfigFixed(<<>>)

fixInputs == <<eventName, payloadPR, comment, reviewComments>>
pipelineVars == <<configVars, pc, listed, files, idx, analyzedFiles, analysisResults,
                  fileState, commentVars, summaryVars, diffVars, parseVars,
                  invokeVars, entryVars>>

\* run(): the event is not pull_request in this slice
Run ==
    /\ fpc = "run"
    /\ fpc' = IF eventName = "issue_comment" THEN "handleComment" ELSE "done"
    /\ UNCHANGED <<pipelineVars, fixInputs, repoFile, fixComment, fixCode, content,
                   written, raised, log>>

HandleComment ==
    /\ fpc = "handleComment"
    /\ fpc' = IF Trim(comment.body) = "/apply-fix" THEN "handleApplyFix" ELSE "done"
    /\ UNCHANGED <<pipelineVars, fixInputs, repoFile, fixComment, fixCode, content,
                   written, raised, log>>

\* handleApplyFix up to the call of applyChanges
HandleApplyFix ==
    /\ fpc = "handleApplyFix"
    /\ log' = Append(log, Call("listReviewComments", "", 0))
    /\ \E ok \in BOOLEAN :
          IF ok
             THEN /\ fixComment' = Find(reviewComments, comment.in_reply_to_id)
                  /\ fixCode' = IF fixComment' = NoComment THEN NoFix
                                ELSE ExtractFixCode(fixComment'.body)
                  /\ fpc' = IF fixComment' # NoComment /\ FixCodeTruthy(fixCode')
                               THEN "applyChanges" ELSE "done"
                  /\ UNCHANGED raised
             ELSE /\ raised' = "HttpError"
                  /\ fpc' = "failed"
                  /\ UNCHANGED <<fixComment, fixCode>>
    /\ UNCHANGED <<pipelineVars, fixInputs, repoFile, content, written>>

\* applyChanges: getFileContent and the split of its result
ApplyChangesFetch ==
    /\ fpc = "applyChanges"
    /\ IF ~payloadPR
          THEN /\ raised' = "TypeError"
               /\ fpc' = "failed"
               /\ UNCHANGED <<content, log>>
          ELSE /\ log' = Append(log, Call("getContent", fixComment.path, 0))
               /\ \E ok \in BOOLEAN :
                     IF ok
                        THEN /\ content' = repoFile
                             /\ fpc' = "createOrUpdateFileContents"
                             /\ UNCHANGED raised
                        ELSE /\ raised' = "HttpError"
                             /\ fpc' = "failed"
                             /\ UNCHANGED content
    /\ UNCHANGED <<pipelineVars, fixInputs, repoFile, fixComment, fixCode, written>>

\* applyChanges: the replacement of the line and createOrUpdateFileContents
ApplyChangesWrite ==
    /\ fpc = "createOrUpdateFileContents"
    /\ log' = Append(log, Call("updateFile", fixComment.path, fixComment.line))
    /\ written' = Append(written, UpdatedContent(content, fixComment.line, fixCode))
    /\ \E ok \in BOOLEAN :
          IF ok
             THEN /\ repoFile' = UpdatedContent(content, fixComment.line, fixCode)
                  /\ fpc' = "done"
                  /\ UNCHANGED raised
             ELSE /\ raised' = "HttpError"
                  /\ fpc' = "failed"
                  /\ UNCHANGED repoFile
    /\ UNCHANGED <<pipelineVars, fixInputs, fixComment, fixCode, content>>

NextFix == Run \/ HandleComment \/ HandleApplyFix \/ ApplyChangesFetch \/ ApplyChangesWrite

SpecFix == InitFix /\ [][NextFix]_vars

(***************************************************************************)
(* buildPromptMessages and invokeBedrock, on their own                     *)
(***************************************************************************)
ModelIds ==
    { "anthropic.claude-3-sonnet", "us.anthropic.claude-3-haiku", "amazon.titan-text",
      "amazon.nova-pro", "amazon.anthropic-proxy", "meta.llama3-70b", "mistral.large",
      "Anthropic.Claude", "" }

PromptFiles ==
    { "src/a.js", "src/b.js", "dist/c.js", "old.js", "Makefile", "README.MD",
      "lib/x.test.TS" }

\* String.prototype.includes, case-sensitive, over the identifiers above
Includes(id, sub) ==
    CASE sub = "anthropic" ->
            id \in { "anthropic.claude-3-sonnet", "us.anthropic.claude-3-haiku",
                     "amazon.anthropic-proxy", "anthropic.claude" }
      [] sub = "amazon" ->
            id \in { "amazon.titan-text", "amazon.nova-pro", "amazon.anthropic-proxy" }
      [] OTHER -> FALSE

\* filename.split(".").pop().toLowerCase()
Extension(filename) ==
    CASE filename \in { "src/a.js", "src/b.js", "dist/c.js", "old.js" } -> "js"
      [] filename = "README.MD" -> "md"
      [] filename = "lib/x.test.TS" -> "ts"
      [] filename = "Makefile" -> "makefile"
      [] OTHER -> filename

\* return [userPrompt];
BuildPromptMessages(filename) ==
    << [role |-> "user", file |-> filename, fence |-> Extension(filename)] >>

FramingAmazonFirst(id) ==
    IF Includes(id, "amazon") THEN "amazon"
    ELSE IF Includes(id, "anthropic") THEN "anthropic"
    ELSE "generic"

\* if (id.includes("anthropic")) ... else if (id.includes("amazon")) ... else ...
Framing(id) ==
    IF Includes(id, "anthropic") THEN "anthropic"
    ELSE IF Includes(id, "amazon") THEN "amazon"
    ELSE "generic"

\* payload.body, before JSON.stringify
Body(id, messages) ==
    CASE Framing(id) = "anthropic" ->
            [framing |-> "anthropic", version |-> "bedrock-2023-05-31",
             max_tokens |-> 4096, temperature |-> "absent", messages |-> messages]
      [] Framing(id) = "amazon" ->
            [framing |-> "amazon", version |-> "absent",
             max_tokens |-> 1000, temperature |-> "0.2", messages |-> messages]
      [] OTHER ->
            [framing |-> "generic", version |-> "absent",
             max_tokens |-> 4096, temperature |-> "0.2", messages |-> messages]

InitInvoke ==
    /\ slice = "invoke"
    /\ maxFiles = DefaultMaxFiles
    /\ commentThreshold = "MEDIA"
    /\ bedrockModelId \in ModelIds \cup {Undefined}
    /\ BotIdle
    /\ DiffVarsIdle
    /\ ParseVarsIdle
    /\ eventName = "none"
    /\ payloadPR = FALSE
    /\ FixVarsIdle
    /\ ConfigFixed(<<>>)
    /\ promptFile \in PromptFiles
    /\ payload = NoPayload
    /\ ipc = "call"

\* invokeBedrock(buildPromptMessages(content, filename)), up to bedrock.send
InvokeBedrock ==
    /\ ipc = "call"
    /\ IF bedrockModelId = Undefined
          \* undefined.includes raises a TypeError
          THEN /\ ipc' = "raised"
               /\ payload' = payload
          ELSE /\ ipc' = "framed"
               /\ payload' = Body(bedrockModelId, BuildPromptMessages(promptFile))
    /\ UNCHANGED <<configVars, pc, listed, files, idx, analyzedFiles, analysisResults,
                   fileState, commentVars, summaryVars, log, diffVars, parseVars,
                   fixVars, entryVars, promptFile>>

NextInvoke == InvokeBedrock

SpecInvoke == InitInvoke /\ [][NextInvoke]_vars

(***************************************************************************)
(* index.js: run() reads the inputs, builds config and starts the bot      *)
(***************************************************************************)
\* the texts of exclude-patterns, as sequences of globs, separators and blanks
PatternInputs ==
    { <<"node_modules/**", ",", "dist/**", ",", "build/**">>,
      <<"node_modules/**", "\n", "dist/**", "\n", "build/**">>,
      <<" ", "dist/**", " ", "\n", "\n", " ", "\n", "build/**">>,
      <<"dist/**">>,
      <<>> }

ActionInputs ==
    [ given : {TRUE},
      excludePatterns : PatternInputs,
      maxFiles : {"10", "2", "0", "abc"},
      commentThreshold : {"", "ALTA"},
      bedrockModelId : {"anthropic.claude", "amazon.titan-text"} ]

\* input.split("\n")
RECURSIVE SplitLines(_)
SplitLines(input) ==
    LET breaks == { j \in DOMAIN input : input[j] = "\n" }
    IN  IF breaks = {}
           THEN <<input>>
           ELSE LET b == CHOOSE j \in breaks : \A other \in breaks : j <= other
                IN  <<SubSeq(input, 1, b - 1)>>
                        \o SplitLines(SubSeq(input, b + 1, Len(input)))

\* p.trim(): the text of the piece without the blanks at its two ends
RECURSIVE TrimPiece(_)
TrimPiece(piece) ==
    IF piece = <<>> THEN ""
    ELSE IF Head(piece) = " " THEN TrimPiece(Tail(piece))
    ELSE IF piece[Len(piece)] = " " THEN TrimPiece(SubSeq(piece, 1, Len(piece) - 1))
    ELSE IF Len(piece) = 1 THEN Head(piece)
    ELSE Head(piece) \o TrimPiece(Tail(piece))

\* if (!input) return [];
\* return input.split("\n").map(p => p.trim()).filter(p => p.length > 0);
ParseExcludePatterns(input) ==
    IF input = <<>>
       THEN <<>>
       ELSE LET pieces == SplitLines(input)
                trimmed == [j \in DOMAIN pieces |-> TrimPiece(pieces[j])]
            IN  SelectSeq(trimmed, LAMBDA p : p # "")

\* parseInt(core.getInput("max-files"))
ParseIntInput(text) ==
    CASE text = "10" -> [nan |-> FALSE, n |-> 10]
      [] text = "2" -> [nan |-> FALSE, n |-> 2]
      [] text = "0" -> [nan |-> FALSE, n |-> 0]
      [] OTHER -> [nan |-> TRUE, n |-> 0]

\* parseInt(...) || 10
MaxFilesOf(text) ==
    LET parsedInt == ParseIntInput(text)
    IN  IF parsedInt.nan \/ parsedInt.n = 0 THEN DefaultMaxFiles ELSE parsedInt.n

\* core.getInput("comment-threshold") || "MEDIA"
ThresholdOf(text) == IF text = "" THEN "MEDIA" ELSE text

\* the action has been started and run() of index.js has not read its inputs
InitEntry ==
    /\ slice = "entry"
    /\ inputs \in ActionInputs
    /\ maxFiles = DefaultMaxFiles
    /\ commentThreshold = "unset"
    /\ bedrockModelId = Undefined
    /\ excludePatterns = <<>>
    /\ pc = "index"
    /\ listed = "pending"
    /\ files = <<>>
    /\ idx = 1
    /\ analyzedFiles = 0
    /\ analysisResults = <<>>
    /\ fileState = <<>>
    /\ filteredIssues = <<>>
    /\ k = 1
    /\ commented = <<>>
    /\ lookupOk = FALSE
    /\ inlineTries = 0
    /\ generalTries = 0
    /\ summaryOk = "pending"
    /\ blockingOk = "pending"
    /\ published = NoStats
    /\ log = <<>>
    /\ DiffVarsIdle
    /\ ParseVarsIdle
    /\ eventName = "pull_request"
    /\ payloadPR = TRUE
    /\ FixVarsIdle
    /\ InvokeVarsIdle

\* const config = {...}; const bot = new CodeReviewBot(config);
\* config has no bedrockModelId, so the constructor stores undefined
IndexRun ==
    /\ pc = "index"
    /\ excludePatterns' = ParseExcludePatterns(inputs.excludePatterns)
    /\ maxFiles' = MaxFilesOf(inputs.maxFiles)
    /\ commentThreshold' = ThresholdOf(inputs.commentThreshold)
    /\ bedrockModelId' = Undefined
    /\ pc' = "start"
    /\ UNCHANGED <<slice, inputs, listed, files, idx, analyzedFiles, analysisResults,
                   fileState, commentVars, summaryVars, log, diffVars, parseVars,
                   fixVars, invokeVars>>

NextEntry ==
    \/ IndexRun
    \/ GetPRFiles
    \/ LoopHead
    \/ GetFileContent
    \/ AnalyzeCode
    \/ CreateSummaryComment

SpecEntry == InitEntry /\ [][NextEntry]_vars

(***************************************************************************)
(* createComment of code-review-bot.js (the hunk-range revision), called   *)
(* once for one issue of one listed file                                   *)
(***************************************************************************)
\* the indices of the hunk headers of a patch
Headers(p) == { i \in DOMAIN p : p[i].kind = "@@" }

\* the lines pushed into the hunk opened at header i: up to the next header
HunkLines(p, i) ==
    { j \in DOMAIN p : j > i /\ \A h \in Headers(p) : h > i => j < h }

\* currentHunk = {start: newStart, end: newStart, ...};
\* if (!line.startsWith("-")) currentHunk.end++
HunkAt(p, i) ==
    [ start |-> p[i].start,
      end |-> p[i].start + Cardinality({ j \in HunkLines(p, i) : p[j].kind # "-" }) ]

\* for (const hunk of hunks) if (line >= hunk.start && line < hunk.end) ...
HasTargetHunk(p, line) ==
    \E i \in Headers(p) : line >= HunkAt(p, i).start /\ line < HunkAt(p, i).end

\* the branch createComment takes once its four lookups answered
NamedCommentRoute(fs, path, line) ==
    IF FileInfo(fs, path) = {} \/ (\A f \in FileInfo(fs, path) : f.status = "removed")
        THEN "returned"
    ELSE IF \A f \in FileInfo(fs, path) : ~HasTargetHunk(f.patch, line)
        THEN "issuesCreateComment"
    ELSE "createReviewComment"

InitNamedComment ==
    /\ slice = "named"
    /\ maxFiles = DefaultMaxFiles
    /\ commentThreshold = "MEDIA"
    /\ bedrockModelId = Undefined
    /\ pc = "createComment"
    /\ listed = "ok"
    /\ files \in { <<[filename |-> "src/a.js", status |-> st, patch |-> p]>> :
                      st \in {"modified", "removed"}, p \in DiffPatches }
    /\ idx = 1
    /\ analyzedFiles = 0
    /\ analysisResults = <<>>
    /\ fileState = <<"untouched">>
    /\ filteredIssues \in { <<Issue("ALTA", l, "none")>> : l \in 1..MaxTarget }
    /\ k = 1
    /\ commented = filteredIssues
    /\ lookupOk = FALSE
    /\ inlineTries = 0
    /\ generalTries = 0
    /\ summaryOk = "pending"
    /\ blockingOk = "pending"
    /\ published = NoStats
    /\ log = <<>>
    /\ DiffVarsIdle
    /\ ParseVarsIdle
    /\ eventName = "pull_request"
    /\ payloadPR = TRUE
    /\ FixVarsIdle
    /\ InvokeVarsIdle
    /\ ConfigFixed(<<>>)

namedFixed == <<configVars, listed, files, idx, analyzedFiles, analysisResults, fileState,
                filteredIssues, k, commented, summaryVars, diffVars, parseVars, fixVars,
                invokeVars, entryVars>>

\* pulls.get (twice), getPRFiles and the files request, then the branch on the hunks;
\* a rejected lookup lands in the catch
NamedCreateComment ==
    /\ pc = "createComment"
    /\ \E ok \in BOOLEAN :
        /\ lookupOk' = ok
        /\ pc' = IF ok THEN NamedCommentRoute(files, Path, filteredIssues[k].line)
                       ELSE "catch"
    /\ UNCHANGED <<namedFixed, inlineTries, generalTries, log>>

\* if (!targetHunk) { await this.octokit.rest.issues.createComment(...); return; }
NamedIssueCommentInTry ==
    /\ pc = "issuesCreateComment"
    /\ log' = Append(log, Call("generalComment", Path, filteredIssues[k].line))
    /\ generalTries' = generalTries + 1
    /\ \E ok \in BOOLEAN : pc' = IF ok THEN "returned" ELSE "catch"
    /\ UNCHANGED <<namedFixed, lookupOk, inlineTries>>

\* await this.octokit.rest.pulls.createReviewComment({...})
NamedCreateReviewComment ==
    /\ pc = "createReviewComment"
    /\ log' = Append(log, Call("inlineComment", Path, filteredIssues[k].line))
    /\ inlineTries' = inlineTries + 1
    /\ \E ok \in BOOLEAN : pc' = IF ok THEN "returned" ELSE "catch"
    /\ UNCHANGED <<namedFixed, lookupOk, generalTries>>

\* catch (error) { try { await this.octokit.rest.issues.createComment(...) } catch {} }
NamedCatch ==
    /\ pc = "catch"
    /\ log' = Append(log, Call("generalComment", Path, filteredIssues[k].line))
    /\ generalTries' = generalTries + 1
    /\ \E ok \in BOOLEAN : pc' = "returned"
    /\ UNCHANGED <<namedFixed, lookupOk, inlineTries>>

NextNamedComment ==
    \/ NamedCreateComment
    \/ NamedIssueCommentInTry
    \/ NamedCreateReviewComment
    \/ NamedCatch

SpecNamedComment == InitNamedComment /\ [][NextNamedComment]_vars

(***************************************************************************)
(* Vocabulary of the properties                                            *)
(***************************************************************************)
Count(op) == Cardinality({ j \in DOMAIN log : log[j].op = op })

FileOf(path) == CHOOSE j \in DOMAIN files : files[j].filename = path

CommentOps == {"inlineComment", "generalComment"}
PerFileOps == {"getContent", "invokeModel"} \cup CommentOps

\* new-file line number of patch line i, by the numbering rule of unified diffs: the
\* header before it gives the start, every added or context line in between advances
NewFileLine(p, i) ==
    LET hs == { h \in 1..(i - 1) : p[h].kind = "@@" }
        h == IF hs = {} THEN 0 ELSE CHOOSE x \in hs : \A y \in hs : y <= x
        c == IF h = 0 THEN 1 ELSE p[h].start
    IN  c + Cardinality({ j \in (h + 1)..(i - 1) : p[j].kind \in {"+", " "} })

Occurrences(p, L) ==
    { i \in DOMAIN p : p[i].kind \in {"+", " "} /\ NewFileLine(p, i) = L }

LineInPatch(p, L) == Occurrences(p, L) # {}

\* the severities a threshold lets through, by the order CRITICA > ALTA > MEDIA > BAJA
AtLeast(T) ==
    CASE T = "BAJA" -> {"BAJA", "MEDIA", "ALTA", "CRITICA"}
      [] T = "MEDIA" -> {"MEDIA", "ALTA", "CRITICA"}
      [] T = "ALTA" -> {"ALTA", "CRITICA"}
      [] T = "CRITICA" -> {"CRITICA"}

InComments == pc \in {"createReviewComments", "createComment", "createReview",
                      "createIssueComment"}

\* the analysis createReviewComments is working on, or has just returned from
LastAnalysis == analysisResults[Len(analysisResults)].analysis

JustReturned == pc = "loop" /\ idx > 1 /\ fileState[idx - 1] = "analyzed"

\* createComment has returned for the issue filteredIssues[k - 1]
CommentReturned == pc = "createReviewComments" /\ k > 1

AnalyzedBefore(m) == Cardinality({ x \in 1..(m - 1) : fileState[x] = "analyzed" })

CritHighCount ==
    Cardinality({ rn \in UNION { { <<r, n>> : n \in DOMAIN analysisResults[r].analysis } :
                                 r \in DOMAIN analysisResults } :
                  analysisResults[rn[1]].analysis[rn[2]].severity \in {"CRITICA", "ALTA"} })

(***************************************************************************)
(* Properties                                                              *)
(***************************************************************************)

\* C1: whatever the outcomes of the per-file calls, a content fetch is started for at
\* most maxFiles files, the fetches follow the order of the listing, and no file is
\* fetched once maxFiles files have been accepted.
C1_AtMostMaxFilesSelected ==
    /\ Count("getContent") <= maxFiles
    /\ \A a, b \in DOMAIN log :
         (a < b /\ log[a].op = "getContent" /\ log[b].op = "getContent")
            => FileOf(log[a].path) < FileOf(log[b].path)

\* C2: a changed file whose status is 'removed' is never selected: no content fetch,
\* no inference call and no comment is made for it, and it never counts as analyzed.
C2_RemovedNeverSelected ==
    /\ \A j \in DOMAIN log :
         log[j].op \in PerFileOps => files[FileOf(log[j].path)].status # "removed"
    /\ \A j \in DOMAIN fileState :
         fileState[j] = "analyzed" => files[j].status # "removed"

C6_ListingFailureAborts ==
    listed = "failed" => (pc = "failed" /\ log = <<Call("listFiles", "", 0)>>)

\* C6 witness: a run whose listing failed.
C6_Witness == listed = "failed" /\ pc = "failed" /\ Len(log) = 1

\* C7 (as claimed): at the end of the run a REQUEST_CHANGES review has been attempted
\* if and only if the results hold at least one CRITICA or ALTA issue.
C7_BlockingIffCritHigh ==
    pc = "done" => (Count("requestChanges") >= 1 <=> CritHighCount > 0)

\* C7 (amended): at the end of the run a REQUEST_CHANGES review has been attempted, once
\* and as the last call, if and only if the results hold at least one CRITICA or ALTA
\* issue and the summary comment was created; with no such issue none is attempted.
C7_BlockingIffCritHighAndSummary ==
    /\ Count("requestChanges") <= 1
    /\ pc = "done" =>
         (Count("requestChanges") = 1 <=> (CritHighCount > 0 /\ summaryOk = "ok"))
    /\ CritHighCount = 0 => Count("requestChanges") = 0
    /\ \A a \in DOMAIN log :
         log[a].op = "requestChanges"
            => (a = Len(log) /\ a > 1 /\ log[a - 1].op = "summaryComment")

\* C7 witness: a run over two analyzed files ended with the blocking review attempted.
C7_Witness ==
    /\ pc = "done"
    /\ Count("requestChanges") = 1
    /\ Len(analysisResults) >= 2
    /\ CritHighCount > 0

\* C8: createReviewComments retains exactly the issues whose severity is at or above
\* the threshold in the order CRITICA > ALTA > MEDIA > BAJA (BAJA retains all four
\* levels, CRITICA only CRITICA), and calls createComment for the retained issues in
\* the order of the analysis.
C8_ThresholdFilterInOrder ==
    /\ InComments =>
         LET expected == SelectSeq(LastAnalysis,
                            LAMBDA i : i.severity \in AtLeast(commentThreshold))
         IN  /\ filteredIssues = expected
             /\ Len(commented) = (IF pc = "createReviewComments" THEN k - 1 ELSE k)
             /\ commented = SubSeq(expected, 1, Len(commented))
    /\ JustReturned =>
         commented = SelectSeq(LastAnalysis,
                        LAMBDA i : i.severity \in AtLeast(commentThreshold))

\* C8 witness: createReviewComments returned having commented two issues of different
\* severities under the threshold MEDIA.
C8_Witness ==
    /\ JustReturned
    /\ commentThreshold = "MEDIA"
    /\ Len(commented) = 2
    /\ commented[1].severity # commented[2].severity

\* C9: an issue whose severity is none of the four levels has rank 0 and is filtered
\* out under every threshold: createComment is never called for it, and a file gets
\* comment attempts only when its analysis holds an issue of a recognized severity.
C9_UnrecognizedNeverCommented ==
    /\ SeverityLevel(Unrecognized) = 0
    /\ \A n \in DOMAIN filteredIssues : filteredIssues[n].severity \in Severities
    /\ \A n \in DOMAIN commented : commented[n].severity \in Severities
    /\ \A a \in DOMAIN log :
         log[a].op \in CommentOps =>
            \E r \in DOMAIN analysisResults :
               /\ analysisResults[r].path = log[a].path
               /\ \E n \in DOMAIN analysisResults[r].analysis :
                    /\ analysisResults[r].analysis[n].severity \in Severities
                    /\ analysisResults[r].analysis[n].line = log[a].line

\* C9 witness: under the threshold BAJA createReviewComments returned from an analysis
\* holding an unrecognized issue and a commented one.
C9_Witness ==
    /\ JustReturned
    /\ commentThreshold = "BAJA"
    /\ Len(commented) = 1
    /\ Len(LastAnalysis) = 2
    /\ \E n \in DOMAIN LastAnalysis : LastAnalysis[n].severity = Unrecognized

\* C10: for a target line that is an added or context line of a hunk, findPositionInDiff
\* returns the 1-based index (headers counted) of the first patch line whose new-file
\* line number is the target; for a header, a context line and then an added line, the
\* added line maps to position 3.
C10_PositionOfPatchLine ==
    dpc = "returned" =>
        /\ LineInPatch(patch, targetLine) =>
             /\ position \in Occurrences(patch, targetLine)
             /\ \A j \in Occurrences(patch, targetLine) : position <= j
        /\ ( /\ Len(patch) >= 3
             /\ patch[2].kind = " "
             /\ patch[3].kind = "+"
             /\ targetLine = patch[1].start + 1 ) => position = 3

\* C10 witness: a returned position behind a removed line of the hunk.
C10_Witness ==
    /\ dpc = "returned"
    /\ LineInPatch(patch, targetLine)
    /\ position = 4
    /\ patch[2].kind = " "
    /\ patch[3].kind = "-"
    /\ patch[4].kind = "+"

(***************************************************************************)
(* C11: findPositionInDiff returns null for every target line that is not  *)
(* an added or context line of a hunk of the patch - a line present only   *)
(* as a removed line and an empty or absent patch included - and a         *)
(* position it returns never designates a hunk header or a removed line.   *)
(***************************************************************************)
C11_NullOutsideHunks ==
    dpc = "returned" =>
        /\ ~LineInPatch(patch, targetLine) => position = Null
        /\ patch = NoPatch => position = Null
        /\ position # Null =>
             /\ position \in DOMAIN patch
             /\ patch[position].kind \notin {"@@", "-"}

\* the target is the new-file line number a removed line would have had, and
\* no added or context line carries it
C11_Witness ==
    /\ dpc = "returned"
    /\ Len(patch) = 3
    /\ patch[2].kind = " "
    /\ patch[3].kind = "-"
    /\ targetLine = patch[1].start + 1
    /\ position = Null

(***************************************************************************)
(* Vocabulary of the properties about parseAnalysis                        *)
(***************************************************************************)
\* the object a well-formed candidate denotes: for every name the value of
\* its last member of that name
ObjectOf(o) ==
    [f \in FieldNames |->
        LET is == { i \in DOMAIN o : o[i].t = "field" /\ o[i].f = f }
            m == CHOOSE i \in is : \A j \in is : j <= i
        IN  IF is = {} THEN NoVal
            ELSE IF o[m].v.ty = "str" THEN Str(JsonUnescape(o[m].v.s))
            ELSE o[m].v]

WellFormedObject(o) ==
    /\ Len(o) >= 2
    /\ o[1] = LC
    /\ o[Len(o)] = RC
    /\ \A i \in 2..(Len(o) - 1) :
          o[i].t = "field" /\ (o[i].v.ty = "str" => JsonStringOk(o[i].v.s))

IsTruncated(o) == o[Len(o)] # RC /\ WellFormedObject(Append(o, RC))

NonEmptyString(v) == v.ty = "str" /\ v.s # ""

\* an object with the four members the data model requires of an issue
IssueShaped(o) ==
    /\ WellFormedObject(o)
    /\ ObjectOf(o)["line"].ty = "num" /\ ObjectOf(o)["line"].n > 0
    /\ ObjectOf(o)["severity"].ty = "str" /\ ObjectOf(o)["severity"].s \in Severities
    /\ NonEmptyString(ObjectOf(o)["description"])
    /\ NonEmptyString(ObjectOf(o)["suggestion"])

ParseReturned == ppc = "returned" /\ response.shape \in TextShapes

(***************************************************************************)
(* C12: for a response text that is prose around a well-formed JSON array  *)
(* of N objects of the shape of an issue (line, severity, description and  *)
(* suggestion present and non-empty), parseAnalysis returns exactly N      *)
(* issues, in the order of the array, each equal to its object.            *)
(***************************************************************************)
C12_ArrayRoundTrip ==
    ( /\ ParseReturned
      /\ parser = "arrayThenRegex"
      /\ composed.wrap
      /\ \A i \in DOMAIN composed.objs : IssueShaped(composed.objs[i]) )
    => parsed = [i \in DOMAIN composed.objs |-> ObjectOf(composed.objs[i])]

(***************************************************************************)
(* C13: for a response that holds one JSON object, well-formed except that *)
(* its closing brace is missing, the parser returns exactly one issue,     *)
(* equal to the issue it returns for the same object with the brace.       *)
(***************************************************************************)
C13_MissingBraceRecovered ==
    ( /\ ParseReturned
      /\ ~composed.wrap
      /\ composed.pre = <<>>
      /\ composed.post = <<>>
      /\ Len(composed.objs) = 1
      /\ IsTruncated(composed.objs[1]) )
    => LET closed == [response EXCEPT !.text = Append(@, RC)]
       IN  /\ Len(parsed) = 1
           /\ parsed = IF parser = "repair" THEN ParseAnalysisRepair(closed)
                       ELSE ParseAnalysis(closed)

(***************************************************************************)
(* Vocabulary of the properties about the apply-fix flow                   *)
(***************************************************************************)
TriggerGiven == Trim(comment.body) = "/apply-fix"

Parents == { i \in DOMAIN reviewComments : reviewComments[i].id = comment.in_reply_to_id }
ParentExists == Parents # {}

\* some comment the reply answers has a fenced diff block with content
ParentHasDiff ==
    \E i \in Parents :
        /\ reviewComments[i].body.fence = "diff"
        /\ reviewComments[i].body.code \notin {<<>>, <<"">>}

AllThree == TriggerGiven /\ ParentExists /\ ParentHasDiff

FixRunEnded == fpc \in {"done", "failed"}

\* the line a one-line diff text stands for
StrippedText(l) ==
    CASE l = "+ n" -> "n"
      [] l = "- o" -> "o"
      [] OTHER -> l

C15_TriggerReachesWrite ==
    ( /\ FixRunEnded
      /\ eventName = "issue_comment"
      /\ AllThree
      /\ raised # "HttpError" )
    => /\ Count("getContent") = 1
       /\ Count("updateFile") = 1
       /\ Len(written) = 1

(***************************************************************************)
(* C16: the content applyChanges writes has as many lines as the content   *)
(* it fetched, its line number 'line' is the diff text without one leading *)
(* '+' or '-' and the space after it, and every other line is the line of  *)
(* the fetched content.                                                    *)
(***************************************************************************)
C16_OnlyTheLineChanges ==
    ( /\ Len(written) = 1
      /\ fixComment.line \in 1..Len(content) )
    => /\ Len(written[1]) = Len(content)
       /\ \A i \in DOMAIN content :
             i # fixComment.line => written[1][i] = content[i]
       /\ Len(fixCode) = 1 => written[1][fixComment.line] = StrippedText(fixCode[1])

(***************************************************************************)
(* C17: the number of analyzed files the summary publishes equals the      *)
(* number of files of the run whose content fetch and inference call both  *)
(* succeeded.                                                              *)
(***************************************************************************)
C17_AnalyzedCountsSuccesses ==
    Count("summaryComment") = 1 =>
        published.filesAnalyzed =
            Cardinality({ j \in DOMAIN fileState :
                            fileState[j] \in {"analyzed", "commentsFailed"} })

(***************************************************************************)
(* C18: when the creation of the inline comment of an issue fails, a       *)
(* general comment naming the file and the line of that issue is attempted *)
(* next; whatever the outcome of that attempt, createComment returns       *)
(* without raising, createReviewComments goes on with the next issue, and  *)
(* the run goes on with the remaining files.                               *)
(***************************************************************************)
C18_InlineFailureStep ==
    /\ (pc = "createReview" /\ k' = k) => pc' = "createIssueComment"
    /\ pc = "createIssueComment" =>
          /\ log' = Append(log, Call("generalComment", Path, filteredIssues[k].line))
          /\ pc' = "createReviewComments"
          /\ k' = k + 1
          /\ UNCHANGED <<idx, filteredIssues, analysisResults>>

C18_CommentsNeverAbort ==
    /\ pc = "failed" => listed = "failed"
    /\ JustReturned => commented = filteredIssues
    /\ pc = "done" =>
          \A m \in DOMAIN fileState :
             fileState[m] = "untouched" => AnalyzedBefore(m) >= maxFiles

C19_OneFileAtATime ==
    /\ \A a, b \in DOMAIN log :
         (a < b /\ log[a].op \in PerFileOps /\ log[b].op \in PerFileOps)
            => /\ FileOf(log[a].path) <= FileOf(log[b].path)
               /\ \A c \in a..b : log[a].path = log[b].path => log[c].path = log[a].path
    /\ \A r, t \in DOMAIN analysisResults :
         r < t => FileOf(analysisResults[r].path) <= FileOf(analysisResults[t].path)
    /\ \A r \in DOMAIN analysisResults :
         /\ FileOf(analysisResults[r].path) <= idx
         /\ \E a \in DOMAIN log :
              log[a].op = "getContent" /\ log[a].path = analysisResults[r].path

\* a run over two files: the first analyzed with a comment, the second failed,
\* both recorded
C19_Witness ==
    /\ pc = "done"
    /\ Len(analysisResults) = 2
    /\ analysisResults[1].analysis # <<>>
    /\ analysisResults[2].analysis = <<>>
    /\ analysisResults[1].path # analysisResults[2].path
    /\ \E a \in DOMAIN log : log[a].op \in CommentOps /\ log[a].path = analysisResults[1].path

(***************************************************************************)
(* C20: in a response with several candidate objects of which one is       *)
(* malformed, every well-formed candidate that has a line is still         *)
(* returned as an issue.                                                   *)
(***************************************************************************)
C20_MalformedDoesNotAbort ==
    ( /\ ParseReturned
      /\ parser = "arrayThenRegex"
      /\ \E j \in DOMAIN composed.objs : ~WellFormedObject(composed.objs[j]) )
    => \A i \in DOMAIN composed.objs :
          ( /\ WellFormedObject(composed.objs[i])
            /\ ObjectOf(composed.objs[i])["line"].ty = "num"
            /\ ObjectOf(composed.objs[i])["line"].n > 0 )
          => \E r \in DOMAIN parsed :
                parsed[r]["line"] = ObjectOf(composed.objs[i])["line"]

(***************************************************************************)
(* C21: when the bracketed span decodes and none of its elements is valid, *)
(* parseAnalysis returns what the per-object fallback returns for the      *)
(* text, as it does when the span fails to decode.                         *)
(***************************************************************************)
C21_FallbackOnZeroValid ==
    ( /\ ParseReturned
      /\ parser = "arrayThenRegex"
      /\ ArraySpan(response.text) # <<>>
      /\ \/ ~JsonParse(ArraySpan(response.text)).ok
         \/ SelectSeq(JsonParse(ArraySpan(response.text)).elems, HasRequiredFields) = <<>> )
    => parsed = FallbackParseWithRegex(response.text)

(***************************************************************************)
(* C22: every issue parseAnalysis returns, by either path, is valid: its   *)
(* line, its severity, its description and its suggestion are present and  *)
(* non-empty (description read as description or issue, suggestion as any  *)
(* of suggestion, solution, explanation, code).                            *)
(***************************************************************************)
C22_ReturnedIssuesValid ==
    (ParseReturned /\ parser = "arrayThenRegex") =>
        \A r \in DOMAIN parsed :
            /\ Truthy(parsed[r]["line"])
            /\ Truthy(parsed[r]["severity"])
            /\ Truthy(parsed[r]["description"]) \/ Truthy(parsed[r]["issue"])
            /\ \E f \in {"suggestion", "solution", "explanation", "code"} :
                  Truthy(parsed[r][f])

(***************************************************************************)
(* C23: every issue parseAnalysis returns, by either path, has a line that *)
(* is a positive integer.                                                  *)
(***************************************************************************)
C23_ReturnedLinesPositive ==
    (ParseReturned /\ parser = "arrayThenRegex") =>
        \A r \in DOMAIN parsed :
            parsed[r]["line"].ty = "num" /\ parsed[r]["line"].n > 0

\* C24: invokeBedrock frames the body in exactly one of three ways, chosen by
\* substring of the model id: an id containing "anthropic" gets max_tokens 4096
\* and the single user message; an id containing "amazon" and not "anthropic"
\* gets max_tokens 1000 and temperature 0.2; any other id gets the generic
\* body with max_tokens 4096.
C24_OneFramingPerModelId ==
    ipc = "framed" =>
        /\ payload.framing \in {"anthropic", "amazon", "generic"}
        /\ Includes(bedrockModelId, "anthropic") =>
              /\ payload.framing = "anthropic"
              /\ payload.max_tokens = 4096
              /\ Len(payload.messages) = 1
              /\ payload.messages[1].role = "user"
              /\ payload.messages[1].file = promptFile
        /\ (Includes(bedrockModelId, "amazon") /\ ~Includes(bedrockModelId, "anthropic")) =>
              /\ payload.framing = "amazon"
              /\ payload.max_tokens = 1000
              /\ payload.temperature = "0.2"
        /\ (~Includes(bedrockModelId, "amazon") /\ ~Includes(bedrockModelId, "anthropic")) =>
              /\ payload.framing = "generic"
              /\ payload.max_tokens = 4096

C24_Witness ==
    /\ ipc = "framed"
    /\ Includes(bedrockModelId, "amazon")
    /\ Includes(bedrockModelId, "anthropic")
    /\ payload.framing = "anthropic"

(***************************************************************************)
(* Vocabulary of the properties about the entry point                      *)
(***************************************************************************)
Configured == slice = "entry" /\ pc # "index"

\* the globs written in the text of exclude-patterns, in order
ListedGlobs(input) == SelectSeq(input, LAMBDA t : t \notin {",", "\n", " "})

DefaultPatterns == <<"node_modules/**", ",", "dist/**", ",", "build/**">>

\* C25: the config built by run() of index.js carries the input
\* bedrock-model-id as bedrockModelId, so that invokeBedrock dispatches on a
\* defined id and the inference request of every file whose content was read
\* is sent.
C25_ModelIdCarried ==
    Configured =>
        /\ bedrockModelId = inputs.bedrockModelId
        /\ \A j \in DOMAIN fileState :
              fileState[j] = "inferFailed" =>
                  \E e \in DOMAIN log :
                      log[e].op = "invokeModel" /\ log[e].path = files[j].filename

\* C30: parseExcludePatterns yields one pattern per glob listed in the input,
\* trimmed and without empty entries; for the default input
\* node_modules/**,dist/**,build/** that is three patterns, and a listed file
\* matching one of them is skipped by the loop.
C30_OnePatternPerListedGlob ==
    Configured =>
        /\ excludePatterns = ListedGlobs(inputs.excludePatterns)
        /\ inputs.excludePatterns = DefaultPatterns =>
              /\ Len(excludePatterns) = 3
              /\ \A j \in DOMAIN fileState :
                    (files[j].filename = "dist/c.js" /\ j < idx) =>
                        fileState[j] = "skipped"

\* C26: the results list of handlePullRequest holds at most one entry per
\* changed file path: no file is recorded both with its analysis and as failed.
C26_OneResultPerFile ==
    \A a, b \in DOMAIN analysisResults :
        a # b => analysisResults[a].path # analysisResults[b].path

\* the sum of the per-file issue counts listed under "Files with issues"
RECURSIVE PerFileSum(_)
PerFileSum(results) ==
    IF results = <<>> THEN 0
    ELSE Len(Head(results).analysis) + PerFileSum(Tail(results))

SummaryPublished == summaryOk # "pending"

\* C27: in the summary createSummaryComment publishes, the total issue count
\* equals the sum of the four counts of the table (CRITICA + ALTA + MEDIA +
\* BAJA) and the sum of the per-file issue counts, and filesWithIssues never
\* exceeds filesAnalyzed.
C27_SummaryCountsAgree ==
    SummaryPublished =>
        /\ published.totalIssues =
              published.issueCounts["CRITICA"] + published.issueCounts["ALTA"]
                  + published.issueCounts["MEDIA"] + published.issueCounts["BAJA"]
        /\ published.totalIssues = PerFileSum(analysisResults)
        /\ published.filesWithIssues <= published.filesAnalyzed

\* C28: for one issue, createComment attempts the general (non-inline) comment
\* at most once, also when that attempt fails: a failed general comment is
\* never tried again.
C28_OneGeneralAttempt == Count("generalComment") <= 1

\* C29: the REQUEST_CHANGES review is attempted only after the summary comment
\* has been created; when creating the summary comment or the review fails,
\* createSummaryComment swallows the failure and handlePullRequest ends
\* without raising.
C29_BlockingAfterSummaryNoRaise ==
    /\ \A a \in DOMAIN log :
          log[a].op = "requestChanges" =>
              /\ summaryOk = "ok"
              /\ \E b \in 1..(a - 1) : log[b].op = "summaryComment"
    /\ blockingOk # "pending" => summaryOk = "ok"
    /\ (summaryOk = "failed" \/ blockingOk = "failed") => pc = "done"
    /\ summaryOk = "failed" => Count("requestChanges") = 0

\* C29 witness: a run that ended after its summary comment was created and
\* its REQUEST_CHANGES review was rejected.
C29_Witness ==
    /\ pc = "done"
    /\ summaryOk = "ok"
    /\ blockingOk = "failed"
    /\ log[Len(log)].op = "requestChanges"

====
